---- MODULE Spec2Model ----
(***************************************************************************)
(* Silicon Beach dashboard: the DuckDB bootstrap, the jobs loader, the     *)
(* referral store and the map builder of src/app.py, and the secret        *)
(* resolver of src/scripts/get_secret.py.                                  *)
(*                                                                         *)
(* SQL NULL / pandas missing cells are the empty tuple, a present value v  *)
(* is the one-element tuple <<v>>.  Text is kept as TLA+ strings; where    *)
(* the code looks inside a string (upper(), contains, ORDER BY, line       *)
(* parsing) the string is taken apart into characters first.               *)
(***************************************************************************)
EXTENDS Integers, Sequences, FiniteSets, TLC

VARIABLES
    jobs_cleaned,     \* table jobs_cleaned of the DuckDB file, or NoTable
    referral_paths,   \* table referral_paths (rows in insertion order), or NoTable
    csv_files,        \* the two candidate CSV files of the bootstrap
    conn_cached,      \* st.cache_resource holds the connection
    jobs_cache,       \* st.cache_data entry of load_jobs, or NoEntry
    clock,            \* CURRENT_TIMESTAMP of the next statement
    boot,             \* what the last run of the bootstrap body did
    last,             \* the last call and its outcome
    since_load,       \* what happened since load_jobs was last called
    map_in,           \* arguments of create_map
    map_out,          \* outcome of create_map
    secret_in,        \* environment, secret files and arguments of get_secret
    secret_out        \* outcome of get_secret

vars == <<jobs_cleaned, referral_paths, csv_files, conn_cached, jobs_cache,
          clock, boot, last, since_load, map_in, map_out, secret_in,
          secret_out>>

(***************************************************************************)
(* Bounds of the model.                                                    *)
(***************************************************************************)
MaxJobRows == 2
MaxReferrals == 2
MaxListings == 2
MaxLines == 2
MaxSecretFiles == 2

(***************************************************************************)
(* Values and text.                                                        *)
(***************************************************************************)
Null == <<>>
V(x) == <<x>>
NoTable == [exists |-> FALSE]
NoEntry == [valid |-> FALSE]
None == "None"
Idle == [op |-> "none", had |-> 0]

\* The characters of the strings whose content the code inspects.
Chars(s) ==
    CASE s = "VC" -> <<"V", "C">>
      [] s = "vc" -> <<"v", "c">>
      [] s = "JOB" -> <<"J", "O", "B">>
      [] s = "All" -> <<"A", "l", "l">>
      [] s = "Good" -> <<"G", "o", "o", "d">>
      [] s = "Excellent" -> <<"E", "x", "c", "e", "l", "l", "e", "n", "t">>
      [] s = "Acceptable" -> <<"A", "c", "c", "e", "p", "t", "a", "b", "l", "e">>
      [] s = "Very Good" -> <<"V", "e", "r", "y", " ", "G", "o", "o", "d">>
      [] s = "good" -> <<"g", "o", "o", "d">>
      [] s = "" -> <<>>

\* Code points of the characters that ORDER BY compares.
Ord(c) ==
    CASE c = "B" -> 66 [] c = "C" -> 67 [] c = "J" -> 74 [] c = "O" -> 79
      [] c = "V" -> 86 [] c = "c" -> 99 [] c = "v" -> 118

\* str.upper() on one character.
UpChar(c) ==
    CASE c = "v" -> "V" [] c = "c" -> "C" [] c = "g" -> "G" [] c = "o" -> "O"
      [] c = "d" -> "D" [] OTHER -> c

Upper(cs) == [i \in 1..Len(cs) |-> UpChar(cs[i])]

\* a < b in the byte order DuckDB sorts VARCHAR by.
RECURSIVE CharsLess(_, _)
CharsLess(a, b) ==
    IF b = <<>> THEN FALSE
    ELSE IF a = <<>> THEN TRUE
    ELSE IF Ord(Head(a)) # Ord(Head(b)) THEN Ord(Head(a)) < Ord(Head(b))
    ELSE CharsLess(Tail(a), Tail(b))

\* sub in s, as Python's substring test.
Contains(s, sub) ==
    \E i \in 1..(Len(s) - Len(sub) + 1) : SubSeq(s, i, i + Len(sub) - 1) = sub

\* All orders of the rows of a sequence.
Perms(seq) ==
    LET n == Len(seq)
        P == {p \in [1..n -> 1..n] : \A i, j \in 1..n : i # j => p[i] # p[j]}
    IN  {[i \in 1..n |-> seq[p[i]]] : p \in P}

SeqsUpTo(S, n) == UNION {[1..k -> S] : k \in 0..n}

(***************************************************************************)
(* The jobs_cleaned schema.                                                *)
(***************************************************************************)
\* column_map / expected_cols of load_jobs, the columns of the empty table.
ExpectedCols ==
    <<"type", "company", "title", "area", "location", "address", "stage",
      "focus", "transit_duration", "transit_routes", "transit_changes",
      "commute_rating", "commute_score", "google_maps_link", "career_url",
      "job_url", "linkedin_search", "contact_name", "contact_email",
      "closest_metro">>

ExpectedSet == {ExpectedCols[i] : i \in 1..Len(ExpectedCols)}

\* str.lower() on the column names that occur.
Lower(name) ==
    CASE name = "Type" -> "type"
      [] name = "Company" -> "company"
      [] name = "Commute_Score" -> "commute_score"
      [] name = "AREA" -> "area"
      [] name = "Internal_ID" -> "internal_id"
      [] OTHER -> name

\* CREATE TABLE IF NOT EXISTS jobs_cleaned (type VARCHAR, ...): no rows.
EmptyJobsTable == [exists |-> TRUE, cols |-> ExpectedSet, rows |-> <<>>]

\* CREATE TABLE IF NOT EXISTS referral_paths (...): no rows.
EmptyReferrals == [exists |-> TRUE, rows |-> <<>>]

(***************************************************************************)
(* The storage bootstrap: the body of get_duckdb_connection.               *)
(***************************************************************************)
\* A candidate path: no such file, a file pd.read_csv raises on, or a file
\* with a header line and rows.
Absent == [state |-> "absent"]
Unparseable == [state |-> "unparseable"]

\* pd.read_csv, df.columns.str.lower(), CREATE TABLE ... AS SELECT * FROM df
CsvTable(f) ==
    [exists |-> TRUE,
     cols |-> {Lower(f.header[i]) : i \in 1..Len(f.header)},
     rows |-> [k \in 1..Len(f.rows) |->
                 [c \in {Lower(f.header[i]) : i \in 1..Len(f.header)} |->
                     f.rows[k][CHOOSE i \in 1..Len(f.header) :
                                   Lower(f.header[i]) = c]]]]

\* The loop gives up at the first candidate instead of trying the next one.
CsvImportFirstOnly(files) ==
    IF files = <<>> THEN NoTable
    ELSE IF Head(files).state = "ok" THEN CsvTable(Head(files))
    ELSE NoTable

\* The loop over csv_files: the first file that exists and loads, or NoTable.
RECURSIVE CsvImport(_)
CsvImport(files) ==
    IF files = <<>> THEN NoTable
    ELSE IF Head(files).state = "absent" THEN CsvImport(Tail(files))
    ELSE IF Head(files).state = "unparseable" THEN CsvImport(Tail(files))
    ELSE CsvTable(Head(files))

\* The bootstrap re-imports the CSV on every run.
BootstrapReimporting(db, files) ==
    LET t == CsvImport(files)
    IN  IF db.jobs.exists /\ t.exists /\ t.cols = db.jobs.cols
        THEN [db EXCEPT !.jobs.rows = @ \o t.rows]
        ELSE IF db.jobs.exists THEN db
        ELSE [jobs |-> IF t.exists THEN t ELSE EmptyJobsTable,
              refs |-> IF db.refs.exists THEN db.refs ELSE EmptyReferrals]

\* get_duckdb_connection on the database db = [jobs, refs]: when the probe of
\* jobs_cleaned succeeds nothing else runs; the referral_paths probe sits
\* inside the handler of the failed jobs_cleaned probe.
Bootstrap(db, files) ==
    IF db.jobs.exists THEN db
    ELSE LET t == CsvImport(files)
         IN  [jobs |-> IF t.exists THEN t ELSE EmptyJobsTable,
              refs |-> IF db.refs.exists THEN db.refs ELSE EmptyReferrals]

\* The number of stored referrals.
RefCount(t) == IF t.exists THEN Len(t.rows) ELSE 0

Database == [jobs |-> jobs_cleaned, refs |-> referral_paths]

\* The database a call of get_duckdb_connection() leaves: the cached
\* connection is returned as it is, otherwise the body runs.
Connected == IF conn_cached THEN Database ELSE Bootstrap(Database, csv_files)

\* The record of the bootstrap body's last run.
BootLog ==
    IF conn_cached THEN boot
    ELSE [ran |-> TRUE, again |-> boot.ran,
          before |-> Database, after |-> Bootstrap(Database, csv_files)]

(***************************************************************************)
(* load_jobs                                                               *)
(***************************************************************************)
\* DESCRIBE jobs_cleaned, lower-cased.
AvailableColumns(t) == {Lower(c) : c \in t.cols}

\* One entry of select_cols, evaluated on the stored row r.  A present
\* column is selected (type through COALESCE), a missing one is NULL, under
\* the column's own name either way.
SelectCell(t, r, col) ==
    IF col \in AvailableColumns(t)
    THEN IF col = "type"
         THEN (IF r[col] = Null THEN V("JOB") ELSE r[col])
         ELSE r[col]
    ELSE Null

\* The ORDER BY keys: a name that is no column of the table binds to the
\* select list's alias, which is NULL.
TypeKey(t, r) ==
    IF "type" \in AvailableColumns(t) /\ r["type"] # Null
    THEN Chars(r["type"][1]) ELSE Chars("JOB")

ScoreKey(t, r) ==
    IF "commute_score" \in AvailableColumns(t) /\ r["commute_score"] # Null
    THEN r["commute_score"][1] ELSE 0

\* a must come before b: type descending, then score descending.
JobsBefore(t, a, b) ==
    \/ CharsLess(TypeKey(t, b), TypeKey(t, a))
    \/ /\ TypeKey(t, a) = TypeKey(t, b)
       /\ ScoreKey(t, a) > ScoreKey(t, b)

\* The columns of the returned frame: those of the projection, then every
\* expected column that is still missing.
RECURSIVE AddMissing(_, _)
AddMissing(columns, expected) ==
    IF expected = <<>> THEN columns
    ELSE IF \E i \in 1..Len(columns) : columns[i] = Head(expected)
         THEN AddMissing(columns, Tail(expected))
         ELSE AddMissing(Append(columns, Head(expected)), Tail(expected))

\* The names of select_cols: each entry carries its column's name.
ProjectionColumns(t) == [i \in 1..Len(ExpectedCols) |-> ExpectedCols[i]]

\* The projection keeps only the columns the table has and the frame is
\* returned as queried.
FrameColumnsUnfilled(t) ==
    SelectSeq(ExpectedCols, LAMBDA c : c \in AvailableColumns(t))

\* The columns of the frame load_jobs returns.
FrameColumns(t) == AddMissing(ProjectionColumns(t), ExpectedCols)

\* The frames load_jobs may return from table t, one per admissible order.
\* The results the ORDER BY of load_jobs may return: every order of the rows
\* in which no row comes after a row it must precede (ties are in an
\* unspecified order).
JobsOrdered(t) ==
    {s \in Perms(t.rows) :
        \A i, j \in 1..Len(s) : i < j => ~JobsBefore(t, s[j], s[i])}

JobsFrames(t) ==
    LET cols == FrameColumns(t)
        keys == {cols[i] : i \in 1..Len(cols)}
    IN  {[columns |-> cols,
          rows |-> [k \in 1..Len(s) |->
                      [c \in keys |-> SelectCell(t, s[k], c)]]] :
            s \in JobsOrdered(t)}

(***************************************************************************)
(* Initial storage.                                                        *)
(***************************************************************************)
KeyColumns == {"type", "commute_score"}
RestColumns == ExpectedSet \ KeyColumns

\* The column sets of a jobs_cleaned table found in the file: any choice of
\* type and commute_score, with or without the other expected columns, with
\* or without a column the loader does not know.
ColumnSets ==
    {S \cup R \cup X : S \in SUBSET KeyColumns, R \in {{}, RestColumns},
                       X \in {{}, {"Internal_ID"}}} \ {{}}

CellsOf(col) ==
    CASE col = "type" -> {Null, V("VC"), V("JOB")}
      [] col = "commute_score" -> {Null, V(80), V(100)}
      [] col = "transit_changes" -> {V(1)}
      [] OTHER -> {V("x")}

RECURSIVE RowsOver(_)
RowsOver(cols) ==
    IF cols = {} THEN {<<>>}
    ELSE LET c == CHOOSE x \in cols : TRUE
         IN  {(c :> v) @@ r : v \in CellsOf(c), r \in RowsOver(cols \ {c})}

JobsTables ==
    UNION {{[exists |-> TRUE, cols |-> cs, rows |-> rs] : rs \in SeqsUpTo(RowsOver(cs), MaxJobRows)} :
              cs \in ColumnSets}

\* A listings export with capitalised headers, and one without a type column.
CsvVcs ==
    [state |-> "ok", header |-> <<"Type", "Company", "Commute_Score">>,
     rows |-> <<<<V("VC"), V("Acme"), V(100)>>, <<Null, V("Beta"), Null>>>>]
CsvJobs ==
    [state |-> "ok", header |-> <<"company", "AREA">>,
     rows |-> <<<<V("Beta"), V("Culver City")>>>>]

CsvStates == {Absent, Unparseable, CsvVcs, CsvJobs}

NoDatabase == [jobs |-> NoTable, refs |-> NoTable]
NoBoot == [ran |-> FALSE, again |-> FALSE, before |-> NoDatabase, after |-> NoDatabase]

InitOther ==
    /\ map_in = None
    /\ map_out = None
    /\ secret_in = None
    /\ secret_out = None

\* The loader's start: any table, or none and any pair of CSV files.
InitLoad ==
    /\ \/ /\ jobs_cleaned \in JobsTables
          /\ csv_files = <<Absent, Absent>>
       \/ /\ jobs_cleaned = NoTable
          /\ csv_files \in [1..2 -> CsvStates]
    /\ referral_paths \in {NoTable, EmptyReferrals}
    /\ conn_cached = FALSE
    /\ jobs_cache = NoEntry
    /\ clock = 1
    /\ boot = NoBoot
    /\ last = Idle
    /\ since_load = "nothing"
    /\ InitOther

(***************************************************************************)
(* Operations on the storage.                                              *)
(***************************************************************************)
\* What every call of get_duckdb_connection() does to the state.
Connect ==
    /\ jobs_cleaned' = Connected.jobs
    /\ referral_paths' = Connected.refs
    /\ conn_cached' = TRUE
    /\ boot' = BootLog

\* get_duckdb_connection()
GetConnection ==
    /\ Connect
    /\ last' = [op |-> "get_duckdb_connection", had |-> RefCount(referral_paths)]
    /\ UNCHANGED <<csv_files, jobs_cache, clock, since_load, map_in, map_out,
                   secret_in, secret_out>>

\* load_jobs() behind st.cache_data: a cached frame is returned without
\* running the body; otherwise the body runs and its result is cached.
LoadJobs ==
    /\ \/ /\ jobs_cache.valid
          /\ last' = [op |-> "load_jobs", had |-> RefCount(referral_paths),
                       cached |-> TRUE, result |-> jobs_cache.df,
                       after |-> since_load]
          /\ UNCHANGED <<jobs_cleaned, referral_paths, conn_cached, boot,
                         jobs_cache>>
       \/ /\ ~jobs_cache.valid
          /\ Connect
          /\ \E df \in JobsFrames(Connected.jobs) :
                /\ jobs_cache' = [valid |-> TRUE, df |-> df]
                /\ last' = [op |-> "load_jobs", had |-> RefCount(referral_paths),
                             cached |-> FALSE, result |-> df,
                             after |-> since_load]
    /\ since_load' = "nothing"
    /\ UNCHANGED <<csv_files, clock, map_in, map_out, secret_in, secret_out>>

\* The ttl of the load_jobs cache entry runs out.
ExpireCache ==
    /\ jobs_cache.valid
    /\ jobs_cache' = NoEntry
    /\ UNCHANGED <<jobs_cleaned, referral_paths, csv_files, conn_cached,
                   clock, boot, last, since_load, map_in, map_out, secret_in,
                   secret_out>>

\* The Clear Cache button: st.cache_data.clear(), st.cache_resource.clear().
ClearCache ==
    /\ jobs_cache' = NoEntry
    /\ conn_cached' = FALSE
    /\ last' = [op |-> "clear_cache", had |-> RefCount(referral_paths)]
    /\ since_load' = "cleared"
    /\ UNCHANGED <<jobs_cleaned, referral_paths, csv_files, clock, boot,
                   map_in, map_out, secret_in, secret_out>>

NextLoad == GetConnection \/ LoadJobs \/ ExpireCache \/ ClearCache

SpecLoad == InitLoad /\ [][NextLoad]_vars

(***************************************************************************)
(* The referral store.                                                     *)
(***************************************************************************)
Companies == {"Acme", "Beta"}
Tiers == {1, 2}

\* The seven arguments of add_referral.
ReferralArgs(company, tier) ==
    [company |-> V(company), target_person |-> V("Jane Doe"),
     target_title |-> V("Eng Mgr"), connector_name |-> V("Bob"),
     connector_relationship |-> V("College friend"),
     connection_tier |-> V(tier), notes |-> V("met at conf")]

\* INSERT INTO referral_paths (the seven columns) VALUES (?, ?, ?, ?, ?, ?, ?):
\* created_at takes its default, CURRENT_TIMESTAMP.
InsertedRow(a, now) ==
    [company |-> a.company, target_person |-> a.target_person,
     target_title |-> a.target_title, connector_name |-> a.connector_name,
     connector_relationship |-> a.connector_relationship,
     connection_tier |-> a.connection_tier, notes |-> a.notes,
     created_at |-> V(now)]

\* add_referral(...): the INSERT raises when the table does not exist.  Each
\* statement runs at a later CURRENT_TIMESTAMP than the one before it.
AddReferral ==
    \E company \in Companies, tier \in Tiers :
        LET a == ReferralArgs(company, tier)
            t == Connected.refs
        IN  /\ t.exists => Len(t.rows) < MaxReferrals
            /\ jobs_cleaned' = Connected.jobs
            /\ conn_cached' = TRUE
            /\ boot' = BootLog
            /\ IF t.exists
               THEN /\ referral_paths' =
                          [t EXCEPT !.rows = Append(@, InsertedRow(a, clock))]
                    /\ clock' = clock + 1
                    /\ since_load' = "inserted"
               ELSE /\ referral_paths' = t
                    /\ clock' = clock
                    /\ since_load' = since_load
            /\ last' = [op |-> "add_referral", had |-> RefCount(referral_paths),
                        args |-> a, raised |-> ~t.exists, before |-> t]
            /\ UNCHANGED <<csv_files, jobs_cache, map_in, map_out,
                           secret_in, secret_out>>

\* if company: a supplied company filters only when it is truthy.
Truthy(company) == company # Null /\ company # V("")

\* The rows of the SELECT in get_referrals, before ORDER BY.
Selected(rows, company) ==
    IF Truthy(company)
    THEN SelectSeq(rows, LAMBDA r : r.company = company)
    ELSE rows

\* ORDER BY created_at DESC
NewestFirst(a, b) == a.created_at[1] > b.created_at[1]

\* The results the ORDER BY of get_referrals may return (rows of one
\* created_at are in an unspecified order).
ReferralsOrdered(rows) ==
    {s \in Perms(rows) :
        \A i, j \in 1..Len(s) : i < j => ~NewestFirst(s[j], s[i])}

\* get_referrals(company): the SELECT raises when the table does not exist.
GetReferrals ==
    \E company \in {Null, V("")} \cup {V(c) : c \in Companies} :
        LET t == Connected.refs
        IN  /\ Connect
            /\ IF t.exists
               THEN \E res \in ReferralsOrdered(Selected(t.rows, company)) :
                       last' = [op |-> "get_referrals",
                                had |-> RefCount(referral_paths),
                                company |-> company, raised |-> FALSE,
                                result |-> res]
               ELSE last' = [op |-> "get_referrals",
                             had |-> RefCount(referral_paths),
                             company |-> company, raised |-> TRUE,
                             result |-> <<>>]
            /\ UNCHANGED <<csv_files, jobs_cache, clock, since_load, map_in,
                           map_out, secret_in, secret_out>>

(***************************************************************************)
(* The application: every operation, from a database file that may hold    *)
(* either table, both or none.                                             *)
(***************************************************************************)
\* A jobs_cleaned table left by the data pipeline.
PipelineJobs ==
    [exists |-> TRUE, cols |-> {"type", "company", "commute_score"},
     rows |-> <<[type |-> V("VC"), company |-> V("Acme"), commute_score |-> V(100)],
                [type |-> Null, company |-> V("Beta"), commute_score |-> V(80)]>>]

\* A referral stored by an earlier process.
OldReferrals ==
    [exists |-> TRUE, rows |-> <<InsertedRow(ReferralArgs("Acme", 1), 0)>>]

Init ==
    /\ jobs_cleaned \in {NoTable, PipelineJobs}
    /\ csv_files \in {<<Absent, Absent>>, <<Unparseable, CsvJobs>>,
                       <<CsvVcs, CsvJobs>>, <<Absent, CsvVcs>>}
    /\ referral_paths \in {NoTable, EmptyReferrals, OldReferrals}
    /\ conn_cached = FALSE
    /\ jobs_cache = NoEntry
    /\ clock = 1
    /\ boot = NoBoot
    /\ last = Idle
    /\ since_load = "nothing"
    /\ InitOther

Next ==
    \/ GetConnection
    \/ LoadJobs
    \/ ExpireCache
    \/ ClearCache
    \/ AddReferral
    \/ GetReferrals

Spec == Init /\ [][Next]_vars

(***************************************************************************)
(* Claims on the loader, the bootstrap and the referral store.             *)
(***************************************************************************)
Loaded == last.op = "load_jobs"
Columns(df) == {df.columns[i] : i \in 1..Len(df.columns)}

\* C1: whatever columns jobs_cleaned has, the frame load_jobs returns has all
\* 20 expected columns, every row of it carries all 20 fields, and the fields
\* of columns the table lacks are null.
C1_AllFieldsExposed ==
    Loaded =>
        /\ ExpectedSet \subseteq Columns(last.result)
        /\ Len(last.result.rows) = Len(jobs_cleaned.rows)
        /\ \A k \in 1..Len(last.result.rows) :
              /\ ExpectedSet \subseteq DOMAIN last.result.rows[k]
              /\ \A c \in ExpectedSet \ AvailableColumns(jobs_cleaned) :
                    last.result.rows[k][c] = Null

\* A table with a row, an unknown column and a missing expected column was
\* loaded from storage.
C1_Witness ==
    /\ Loaded
    /\ ~last.cached
    /\ Len(last.result.rows) >= 1
    /\ "Internal_ID" \in jobs_cleaned.cols
    /\ ~(ExpectedSet \subseteq AvailableColumns(jobs_cleaned))
    /\ AvailableColumns(jobs_cleaned) \cap ExpectedSet # {}

\* C2: no listing load_jobs returns has a null type, whether the stored type
\* was null or the table has no type column.
C2_TypeNeverNull ==
    Loaded => \A k \in 1..Len(last.result.rows) :
                  last.result.rows[k]["type"] # Null

\* C2, the part the code keeps: with a type column, a stored null type is
\* returned as JOB.
C2_StoredNullTypeIsJob ==
    (Loaded /\ "type" \in AvailableColumns(jobs_cleaned)) =>
        \A k \in 1..Len(last.result.rows) : last.result.rows[k]["type"] # Null

\* C5: a run of the bootstrap after the first one leaves both tables exactly
\* as it found them.
C5_BootstrapIdempotent == boot.again => boot.after = boot.before

\* The bootstrap ran again on a database with listings and referrals while a
\* CSV file it could import was present.
C5_Witness ==
    /\ boot.again
    /\ boot.before.jobs.exists
    /\ Len(boot.before.jobs.rows) >= 1
    /\ RefCount(boot.before.refs) >= 1
    /\ CsvImport(csv_files).exists

\* C6: once the bootstrap has returned, referral_paths exists.
C6_ReferralTableExists == boot.ran => referral_paths.exists

\* C7: add_referral appends exactly one row holding its seven arguments and a
\* created_at, leaving the earlier rows as they were; a following
\* get_referrals(company) holds every stored row of that company; no
\* operation lowers the number of stored referrals.
C7_AddReferralAppendsOne ==
    /\ last.op = "add_referral" =>
          /\ ~last.raised
          /\ referral_paths.exists
          /\ Len(referral_paths.rows) = RefCount(last.before) + 1
          /\ \A i \in 1..RefCount(last.before) :
                referral_paths.rows[i] = last.before.rows[i]
          /\ LET new == referral_paths.rows[Len(referral_paths.rows)]
             IN  /\ \A f \in DOMAIN last.args : new[f] = last.args[f]
                 /\ new.created_at # Null
    /\ (last.op = "get_referrals" /\ last.company # Null) =>
          /\ ~last.raised
          /\ \A i \in 1..RefCount(referral_paths) :
                referral_paths.rows[i].company = last.company =>
                    \E j \in 1..Len(last.result) :
                        last.result[j] = referral_paths.rows[i]
    /\ RefCount(referral_paths) >= last.had

\* The place of a stored row in insertion order.
InsertedAt(r) == CHOOSE i \in 1..RefCount(referral_paths) : referral_paths.rows[i] = r

\* C8: get_referrals() returns every stored row, of every company, newest
\* first: a row inserted later never comes after one inserted earlier.
C8_AllNewestFirst ==
    (last.op = "get_referrals" /\ last.company = Null) =>
        /\ ~last.raised
        /\ Len(last.result) = RefCount(referral_paths)
        /\ \A i \in 1..RefCount(referral_paths) :
              \E j \in 1..Len(last.result) : last.result[j] = referral_paths.rows[i]
        /\ \A i, j \in 1..Len(last.result) :
              i < j => /\ last.result[i].created_at[1] >= last.result[j].created_at[1]
                       /\ InsertedAt(last.result[i]) > InsertedAt(last.result[j])

\* C8, the part the code keeps: when the table exists, all rows, newest first.
C8_NewestFirstWhenTableExists ==
    (last.op = "get_referrals" /\ last.company = Null /\ ~last.raised) =>
        /\ Len(last.result) = RefCount(referral_paths)
        /\ \A i, j \in 1..Len(last.result) :
              i < j => InsertedAt(last.result[i]) > InsertedAt(last.result[j])

\* C9: a returned get_referrals(company) with any company other than None,
\* the empty string included, holds exactly the stored rows of that company.
C9_SuppliedCompanyFilters ==
    (last.op = "get_referrals" /\ last.company # Null /\ ~last.raised) =>
        /\ \A j \in 1..Len(last.result) : last.result[j].company = last.company
        /\ \A i \in 1..RefCount(referral_paths) :
              referral_paths.rows[i].company = last.company =>
                  \E j \in 1..Len(last.result) :
                      last.result[j] = referral_paths.rows[i]

(***************************************************************************)
(* create_map                                                              *)
(***************************************************************************)
\* A commute_score cell of the frame: a number, the float NaN a NULL becomes
\* in a float column, or the None / pd.NA it becomes in an object or
\* nullable-integer column.
Num(n) == [kind |-> "num", v |-> n]
NaN == [kind |-> "nan"]
NA == [kind |-> "na"]

\* pd.notna
NotNa(x) == x.kind = "num"

\* df['commute_rating'].notna() & ...astype(str).str.contains(selected_commute)
RatingMatches(row, selected) ==
    /\ row.commute_rating # Null
    /\ Contains(Chars(row.commute_rating[1]), Chars(selected))

\* notna(type) and str(type).upper() == 'VC'
IsVc(row) == row.type # Null /\ Upper(Chars(row.type[1])) = Chars("VC")

\* The three filters of create_map, in order.
Filtered(df, selected, show_jobs, show_vcs) ==
    LET f1 == IF selected # "All"
              THEN SelectSeq(df, LAMBDA r : RatingMatches(r, selected))
              ELSE df
        f2 == IF ~show_jobs THEN SelectSeq(f1, IsVc) ELSE f1
        f3 == IF ~show_vcs
              THEN SelectSeq(f2, LAMBDA r : r.type = Null \/ ~IsVc(r))
              ELSE f2
    IN  f3

\* The job branch evaluates row['commute_score'] >= 75 unguarded: None >= 75
\* raises TypeError and the truth value of pd.NA >= 75 raises TypeError.
StyleRaises(row) == ~IsVc(row) /\ row.commute_score.kind = "na"

\* The colour and icon of a listing's marker (where none is raised).
Style(row) ==
    LET s == row.commute_score
    IN  IF IsVc(row)
        THEN IF NotNa(s) /\ s.v >= 100 THEN <<"orange", "briefcase">>
             ELSE IF NotNa(s) /\ s.v >= 75 THEN <<"beige", "briefcase">>
             ELSE <<"lightgray", "briefcase">>
        ELSE IF NotNa(s) /\ s.v >= 100 THEN <<"green", "star">>
             \* row['commute_score'] >= 75 is False for the float NaN
             ELSE IF s.kind = "num" /\ s.v >= 75 THEN <<"lightgreen", "star-half">>
             ELSE <<"gray", "circle">>

HomeMarker == [style |-> <<"red", "home">>, home |-> TRUE]

\* create_map(df, selected_commute, show_jobs, show_vcs): the map with its
\* markers, or the exception the marker loop raised.
CreateMapResult(in) ==
    LET rows == Filtered(in.df, in.selected_commute, in.show_jobs, in.show_vcs)
    IN  IF \E k \in 1..Len(rows) : StyleRaises(rows[k])
        THEN [done |-> TRUE, raised |-> TRUE, markers |-> <<>>]
        ELSE [done |-> TRUE, raised |-> FALSE,
              markers |-> <<HomeMarker>> \o
                  [k \in 1..Len(rows) |->
                      [style |-> Style(rows[k]), home |-> FALSE,
                       listing |-> rows[k]]]]

CreateMap ==
    /\ ~map_out.done
    /\ map_out' = CreateMapResult(map_in)
    /\ UNCHANGED <<jobs_cleaned, referral_paths, csv_files, conn_cached,
                   jobs_cache, clock, boot, last, since_load, map_in,
                   secret_in, secret_out>>

Listings ==
    [type : {Null, V("VC"), V("vc"), V("JOB")},
     commute_rating : {Null, V("Very Good"), V("good")},
     commute_score : {Num(100), Num(75), Num(74), NaN, NA}]

InitStorageIdle ==
    /\ jobs_cleaned = NoTable
    /\ referral_paths = NoTable
    /\ csv_files = <<Absent, Absent>>
    /\ conn_cached = FALSE
    /\ jobs_cache = NoEntry
    /\ clock = 1
    /\ boot = NoBoot
    /\ last = Idle
    /\ since_load = "nothing"

InitMap ==
    /\ InitStorageIdle
    /\ map_in \in [df : SeqsUpTo(Listings, MaxListings),
                   selected_commute : {"All", "Good", "Excellent"},
                   show_jobs : BOOLEAN, show_vcs : BOOLEAN]
    /\ map_out = [done |-> FALSE]
    /\ secret_in = None
    /\ secret_out = None

NextMap == CreateMap

SpecMap == InitMap /\ [][NextMap]_vars

\* The style the specification gives a listing, a missing score counting as 0.
ScoreOrZero(row) == IF row.commute_score.kind = "num" THEN row.commute_score.v ELSE 0

StatedStyle(row) ==
    IF row.type # Null /\ Upper(Chars(row.type[1])) = Chars("VC")
    THEN IF ScoreOrZero(row) >= 100 THEN <<"orange", "briefcase">>
         ELSE IF ScoreOrZero(row) >= 75 THEN <<"beige", "briefcase">>
         ELSE <<"lightgray", "briefcase">>
    ELSE IF ScoreOrZero(row) >= 100 THEN <<"green", "star">>
         ELSE IF ScoreOrZero(row) >= 75 THEN <<"lightgreen", "star-half">>
         ELSE <<"gray", "circle">>

\* The listings the three stated filters keep.
StatedKept(in) ==
    SelectSeq(in.df, LAMBDA r :
        /\ in.selected_commute # "All" =>
              (r.commute_rating # Null
               /\ Contains(Chars(r.commute_rating[1]), Chars(in.selected_commute)))
        /\ ~in.show_jobs => (r.type # Null /\ Upper(Chars(r.type[1])) = Chars("VC"))
        /\ ~in.show_vcs => (r.type = Null \/ Upper(Chars(r.type[1])) # Chars("VC")))

\* C3: create_map returns without raising and every listing's marker has the
\* stated style, a null commute_score counting as 0 in both branches.
C3_EveryListingStyled ==
    map_out.done =>
        /\ ~map_out.raised
        /\ \A k \in 2..Len(map_out.markers) :
              map_out.markers[k].style = StatedStyle(map_out.markers[k].listing)

\* C3, the part the code keeps: whenever a map is returned the styles are the
\* stated ones.
C3_StyledWhenReturned ==
    (map_out.done /\ ~map_out.raised) =>
        \A k \in 2..Len(map_out.markers) :
            map_out.markers[k].style = StatedStyle(map_out.markers[k].listing)

\* C4: the map carries the home marker and then one marker for each listing
\* that passes the three filters, and for no other listing.
C4_RendersExactlyFiltered ==
    map_out.done =>
        /\ ~map_out.raised
        /\ Len(map_out.markers) = 1 + Len(StatedKept(map_in))
        /\ map_out.markers[1] = HomeMarker
        /\ \A k \in 1..Len(StatedKept(map_in)) :
              map_out.markers[k + 1].listing = StatedKept(map_in)[k]
        /\ (~map_in.show_jobs /\ map_in.show_vcs) =>
              \A k \in 2..Len(map_out.markers) :
                  /\ map_out.markers[k].listing.type # Null
                  /\ Upper(Chars(map_out.markers[k].listing.type[1])) = Chars("VC")
        /\ (~map_in.show_jobs /\ ~map_in.show_vcs) => Len(map_out.markers) = 1

\* C4, the part the code keeps: a returned map renders exactly the kept listings.
C4_FilteredWhenReturned ==
    (map_out.done /\ ~map_out.raised) =>
        /\ Len(map_out.markers) = 1 + Len(StatedKept(map_in))
        /\ \A k \in 1..Len(StatedKept(map_in)) :
              map_out.markers[k + 1].listing = StatedKept(map_in)[k]

(***************************************************************************)
(* get_secret                                                              *)
(***************************************************************************)
\* Text here is a sequence of characters.  The key looked up is K.
Key == <<"K">>

IsSpace(c) == c = " "

\* str.strip(): whitespace off both ends.
RECURSIVE LStrip(_)
LStrip(s) == IF s # <<>> /\ IsSpace(Head(s)) THEN LStrip(Tail(s)) ELSE s

RECURSIVE RStrip(_)
RStrip(s) ==
    IF s # <<>> /\ IsSpace(s[Len(s)]) THEN RStrip(SubSeq(s, 1, Len(s) - 1)) ELSE s

Strip(s) == RStrip(LStrip(s))

\* str.strip(ch): every leading and trailing ch.
RECURSIVE StripChar(_, _)
StripChar(s, ch) ==
    IF s # <<>> /\ Head(s) = ch THEN StripChar(Tail(s), ch)
    ELSE IF s # <<>> /\ s[Len(s)] = ch THEN StripChar(SubSeq(s, 1, Len(s) - 1), ch)
    ELSE s

HasEquals(s) == \E i \in 1..Len(s) : s[i] = "="
FirstEquals(s) == CHOOSE i \in 1..Len(s) : s[i] = "=" /\ \A j \in 1..(i - 1) : s[j] # "="

\* One line of a secret file: Null when the line is blank, a comment or has
\* no '=', else the (key, value) it defines.
ParseLine(raw) ==
    LET line == Strip(raw)
    IN  IF line = <<>> \/ Head(line) = "#" \/ ~HasEquals(line) THEN Null
        ELSE LET i == FirstEquals(line)
                 file_key == Strip(SubSeq(line, 1, i - 1))
                 file_value == StripChar(StripChar(
                                   Strip(SubSeq(line, i + 1, Len(line))), "\""), "'")
             IN  V([key |-> file_key, value |-> file_value])

\* The value of the first line of the file that defines key, or Null.
RECURSIVE LookupLines(_, _)
LookupLines(lines, key) ==
    IF lines = <<>> THEN Null
    ELSE LET p == ParseLine(Head(lines))
         IN  IF p # Null /\ p[1].key = key THEN V(p[1].value)
             ELSE LookupLines(Tail(lines), key)

\* The loop over secret_paths: a path that is no file is passed over, a file
\* that cannot be read is passed over, the first file defining key decides.
RECURSIVE LookupFiles(_, _)
LookupFiles(files, key) ==
    IF files = <<>> THEN Null
    ELSE IF Head(files).state # "ok" THEN LookupFiles(Tail(files), key)
    ELSE LET v == LookupLines(Head(files).lines, key)
         IN  IF v # Null THEN v ELSE LookupFiles(Tail(files), key)

\* get_secret(key, default): the environment value when it is truthy, else
\* the files, else default.
GetSecretResult(in) ==
    IF in.env # Null /\ in.env[1] # <<>> THEN in.env
    ELSE LET v == LookupFiles(in.files, in.key)
         IN  IF v # Null THEN v ELSE in.default

GetSecret ==
    /\ ~secret_out.done
    /\ secret_out' = [done |-> TRUE, value |-> GetSecretResult(secret_in)]
    /\ UNCHANGED <<jobs_cleaned, referral_paths, csv_files, conn_cached,
                   jobs_cache, clock, boot, last, since_load, map_in, map_out,
                   secret_in>>

\* The six secret_paths of get_secret.
SecretPaths == 6

\* K=a   #K=c   J=b   ' K = "q" '   K=
SecretLines ==
    {<<"K", "=", "a">>,
     <<"#", "K", "=", "c">>,
     <<"J", "=", "b">>,
     <<" ", "K", " ", "=", " ", "\"", "q", "\"", " ">>,
     <<"K", "=">>}

NoFile == [state |-> "absent"]
Unreadable == [state |-> "unreadable"]
SecretFiles ==
    {Unreadable} \cup {[state |-> "ok", lines |-> ls] : ls \in SeqsUpTo(SecretLines, MaxLines)}

\* Every placement of at most MaxSecretFiles files on the six paths.
SecretFileSystems ==
    UNION {{[i \in 1..SecretPaths |-> IF i \in P THEN a[i] ELSE NoFile] :
               a \in [P -> SecretFiles]} :
           P \in {Q \in SUBSET (1..SecretPaths) : Cardinality(Q) <= MaxSecretFiles}}

InitSecret ==
    /\ InitStorageIdle
    /\ map_in = None
    /\ map_out = None
    /\ secret_in \in [env : {Null, V(<<>>), V(<<"e">>)},
                      files : SecretFileSystems,
                      key : {Key},
                      default : {Null, V(<<"d">>)}]
    /\ secret_out = [done |-> FALSE]

NextSecret == GetSecret

SpecSecret == InitSecret /\ [][NextSecret]_vars

\* C10: a set environment variable, whatever its value, is what get_secret
\* returns; unset, the first file in order that defines the key decides, and
\* default is returned only when no file defines it.
C10_EnvironmentWins ==
    secret_out.done =>
        /\ secret_in.env # Null => secret_out.value = secret_in.env
        /\ secret_in.env = Null =>
              secret_out.value =
                  (IF LookupFiles(secret_in.files, secret_in.key) # Null
                   THEN LookupFiles(secret_in.files, secret_in.key)
                   ELSE secret_in.default)

\* C10, the part the code keeps: a non-empty environment value wins over
\* every file.
C10_NonEmptyEnvironmentWins ==
    (secret_out.done /\ secret_in.env # Null /\ secret_in.env # V(<<>>)) =>
        secret_out.value = secret_in.env

(***************************************************************************)
(* The CSV fallback of the bootstrap.                                      *)
(***************************************************************************)
\* A candidate that exists and that pd.read_csv and CREATE TABLE accept.
CandidateLoads(f) == f.state = "ok"

\* The first candidate, in list order, that loads; 0 when none does.
FirstLoadable ==
    IF \E i \in 1..Len(csv_files) : CandidateLoads(csv_files[i])
    THEN CHOOSE i \in 1..Len(csv_files) :
             /\ CandidateLoads(csv_files[i])
             /\ \A j \in 1..(i - 1) : ~CandidateLoads(csv_files[j])
    ELSE 0

\* C12: when jobs_cleaned is missing at bootstrap, the bootstrap returns
\* with jobs_cleaned in place: it holds the first candidate CSV, in list
\* order, that exists and loads (its columns lower-cased, all its rows),
\* whatever the later candidates are and whether the earlier ones are absent
\* or unparseable; when no candidate loads it is the empty table with the
\* 20 expected columns.
C12_FirstLoadableCsvWins ==
    (boot.ran /\ ~boot.before.jobs.exists) =>
        /\ boot.after.jobs.exists
        /\ jobs_cleaned.exists
        /\ IF FirstLoadable = 0
           THEN /\ boot.after.jobs.cols = ExpectedSet
                /\ boot.after.jobs.rows = <<>>
           ELSE LET f == csv_files[FirstLoadable]
                IN  /\ boot.after.jobs.cols =
                          {Lower(f.header[i]) : i \in 1..Len(f.header)}
                    /\ Len(boot.after.jobs.rows) = Len(f.rows)
                    /\ boot.after.jobs = CsvTable(f)

\* The bootstrap skipped an unparseable first candidate and imported the
\* second one.
C12_Witness ==
    /\ boot.ran
    /\ ~boot.before.jobs.exists
    /\ csv_files = <<Unparseable, CsvJobs>>
    /\ jobs_cleaned = CsvTable(CsvJobs)

(***************************************************************************)
(* The page: what a visitor can do in main().                              *)
(***************************************************************************)
\* What the two text inputs of the form may hold.
Persons == {"", "Jane Doe"}
Connectors == {"", "Bob"}

\* sorted(df['company'].tolist()) compares the companies of the frame: with
\* a missing company among two or more rows it raises and the run ends
\* before the form is drawn.
SortRaises(df) ==
    /\ Len(df.rows) >= 2
    /\ \E k \in 1..Len(df.rows) : df.rows[k]["company"] = Null

\* The values the Target Company selectbox can return: a company of the
\* loaded frame, None when the frame has no rows.
TargetCompanies(df) ==
    LET cs == {df.rows[k]["company"] : k \in 1..Len(df.rows)}
    IN  IF cs = {} THEN {Null} ELSE cs

\* The frame load_jobs() returned to this script run: the cached entry, or,
\* when the entry is gone again, a result of the query.
LoadedFrames ==
    IF jobs_cache.valid THEN {jobs_cache.df} ELSE JobsFrames(Connected.jobs)

\* The widgets' values handed to add_referral.
ReferralForm(company, person, connector, tier) ==
    [ReferralArgs("Acme", tier) EXCEPT !.company = company,
                                       !.target_person = V(person),
                                       !.connector_name = V(connector)]

\* Only the target person is required.
ValidatesTargetOnly(a) == Truthy(a.target_person)

\* if target_person and connector_name:
Validates(a) == Truthy(a.target_person) /\ Truthy(a.connector_name)

\* st.cache_data.clear() after add_referral returned.
SavedCache(cache) == NoEntry

\* The Save Referral Path button.  A valid form goes to add_referral, whose
\* INSERT raises when the table does not exist.  After the insertion comes
\* st.success, then st.cache_data.clear(): the element call is a point where
\* the script runner ends the run when a rerun or a stop is pending (the
\* visitor touched a widget meanwhile, the session ended), and then the
\* cache of load_jobs is not cleared.  An invalid form gets st.error and
\* nothing else happens.
SaveReferral ==
    \E df \in LoadedFrames :
    \E company \in TargetCompanies(df), person \in Persons,
       connector \in Connectors, tier \in Tiers, pending \in BOOLEAN :
        LET a == ReferralForm(company, person, connector, tier)
            t == Connected.refs
            inserted == Validates(a) /\ t.exists
        IN  /\ ~SortRaises(df)
            /\ pending => inserted
            /\ IF Validates(a)
               THEN /\ t.exists => Len(t.rows) < MaxReferrals
                    /\ jobs_cleaned' = Connected.jobs
                    /\ conn_cached' = TRUE
                    /\ boot' = BootLog
                    /\ IF t.exists
                       THEN /\ referral_paths' =
                                  [t EXCEPT !.rows = Append(@, InsertedRow(a, clock))]
                            /\ clock' = clock + 1
                            /\ jobs_cache' = IF pending THEN jobs_cache
                                             ELSE SavedCache(jobs_cache)
                            /\ since_load' = "inserted"
                       ELSE /\ referral_paths' = t
                            /\ UNCHANGED <<clock, jobs_cache, since_load>>
               ELSE UNCHANGED <<jobs_cleaned, referral_paths, conn_cached,
                                boot, clock, jobs_cache, since_load>>
            /\ last' = [op |-> "save_referral",
                        had |-> RefCount(referral_paths), form |-> a,
                        error |-> ~Validates(a), called |-> Validates(a),
                        raised |-> Validates(a) /\ ~t.exists,
                        interrupted |-> pending,
                        refs_before |-> referral_paths,
                        refs_after |-> referral_paths',
                        cache_before |-> jobs_cache,
                        cache_after |-> jobs_cache']
            /\ UNCHANGED <<csv_files, map_in, map_out, secret_in, secret_out>>

\* A script run calls load_jobs; the visitor presses Clear Cache or Save
\* Referral Path, or looks at the connections tab; the ttl may run out.
NextApp ==
    \/ LoadJobs
    \/ ExpireCache
    \/ ClearCache
    \/ SaveReferral
    \/ GetReferrals

\* The page starts on a file the data pipeline filled, or on none and no
\* CSV export at hand (the listings are then empty); referrals of an earlier process may be stored.
InitApp ==
    /\ jobs_cleaned \in {PipelineJobs, NoTable}
    /\ csv_files = <<Absent, Absent>>
    /\ referral_paths \in {NoTable, EmptyReferrals, OldReferrals}
    /\ conn_cached = FALSE
    /\ jobs_cache = NoEntry
    /\ clock = 1
    /\ boot = NoBoot
    /\ last = Idle
    /\ since_load = "nothing"
    /\ InitOther

SpecApp == InitApp /\ [][NextApp]_vars

\* C11: a submission whose target person or connector name is empty is
\* answered with an error, add_referral is not called, and the button
\* leaves referral_paths and the cache entry of load_jobs as they were
\* before it was pressed; no stored referral has an empty target person or connector name
\* unless it was there before the page started.
C11_InvalidSubmissionRejected ==
    /\ (/\ last.op = "save_referral"
        /\ \/ last.form.target_person = V("")
           \/ last.form.connector_name = V("")) =>
          /\ last.error
          /\ ~last.called
          /\ last.refs_after = last.refs_before
          /\ last.cache_after = last.cache_before
    /\ \A i \in 1..RefCount(referral_paths) :
          /\ referral_paths.rows[i].target_person # V("")
          /\ referral_paths.rows[i].connector_name # V("")

\* A submission with an empty connector name was rejected while a referral
\* and a cached load were in place.
C11_Witness ==
    /\ last.op = "save_referral"
    /\ last.form.target_person = V("Jane Doe")
    /\ last.form.connector_name = V("")
    /\ last.error
    /\ RefCount(referral_paths) >= 1
    /\ jobs_cache.valid

\* C13: after a successful referral insertion and after Clear Cache the
\* cache entry of load_jobs is gone, and the first load_jobs call after
\* either runs the query on the stored table instead of returning the entry;
\* a call that follows neither, with the entry still in place, is served
\* the entry.
C13_CacheInvalidated ==
    /\ since_load # "nothing" => ~jobs_cache.valid
    /\ (last.op = "load_jobs" /\ last.after # "nothing") =>
          /\ ~last.cached
          /\ last.result \in JobsFrames(jobs_cleaned)
    /\ (last.op = "load_jobs" /\ last.cached) => last.after = "nothing"

\* When the run of the Save handler is not ended at st.success the entry
\* is gone after the insertion, and the first load_jobs call after Clear
\* Cache runs the query.
C13_InvalidatedWhenRunCompletes ==
    /\ (last.op = "save_referral" /\ last.called /\ ~last.raised
            /\ ~last.interrupted) => ~last.cache_after.valid
    /\ (last.op = "load_jobs" /\ last.after = "cleared") => ~last.cached
====
